---------------------------- MODULE Spec2Model ----------------------------
(***************************************************************************)
(* Weather-Website: the backend proxy (rate limiter, /api/weather and      *)
(* /api/weather/extended handlers) and the browser's cache / throttle /    *)
(* in-flight layer (fetchWeather, fetchQuickTemperature, showCachedWeather,*)
(* fetchExtended).                                                         *)
(*                                                                         *)
(* The specifications of the module:                                       *)
(*   SpecGate    the rate limiter of src/unnamed/part_001 over its windows *)
(*   SpecKey     the rate limiter's bucket key, for every kind of sender   *)
(*   SpecSweep   the rate limiter's sweep of a store of 1000 keys          *)
(*   SpecServer  the route handlers of src/unnamed/part_001 (231-469)      *)
(*   SpecClient  the React component of src/frontend/src/App.jsx           *)
(*   SpecClientLive  the same, when every started request settles        *)
(* Each leaves the other side's variables at their initial values.         *)
(*                                                                         *)
(* Strings the code takes apart (trim, toLowerCase, split, startsWith) are *)
(* sequences of pieces, so that those conversions are computed.            *)
(***************************************************************************)
EXTENDS Integers, Sequences, FiniteSets, TLC

VARIABLES
    \* ---- server (src/unnamed/part_001) ----
    now,             \* Date.now() of the server process, ms
    accessKey,       \* process.env.WEATHERAPI_KEY ("" when unset)
    rateLimitStore,  \* the Map: key -> [count, resetTime]
    active,          \* handler invocations suspended at an await
    lastGate,        \* observer: what rateLimit did with the last request
    passed,          \* observer: per key, requests let through in the entry's window
    attempts,        \* observer: per key, gated requests since the entry was created
    lastResponse,    \* observer: the last response sent
    lastUpstream,    \* observer: the upstream call that settled last
    gatedSenders,    \* observer: the senders whose requests the limiter counted
    \* ---- client (src/frontend/src/App.jsx) ----
    clock,           \* Date.now() of the browser, ms
    weatherCache,    \* useState weatherCache: cleaned location -> entry
    extendedCache,   \* useState extendedCache
    weather,         \* useState weather (<<>> is null, else <<entry>>)
    status,          \* useState status
    error,           \* useState error
    activeLocation,  \* useState activeLocation
    extended,        \* useState extended (modal open)
    extendedData,    \* useState extendedData (<<>> is null)
    extendedStatus,  \* useState extendedStatus
    extendedError,   \* useState extendedError
    savedTemps,      \* useState savedTemps: the locations with a saved temperature
    loadingTemps,    \* useState loadingTemps: the locations marked loading
    requestCooldowns,\* useRef requestCooldowns: throttle key -> ms
    requestInFlight, \* useRef requestInFlight: the throttle keys flagged
    pending,         \* network requests started and not yet settled
    started,         \* observer: the network requests started so far
    lastCall,        \* observer: the last call of a fetch function
    lastStarted,     \* observer: throttle key -> ms its last request was started
    lastSettled      \* observer: the request that settled in the last step

serverVars == <<now, accessKey, rateLimitStore, active, lastGate, passed,
                attempts, lastResponse, lastUpstream, gatedSenders>>

clientVars == <<clock, weatherCache, extendedCache, weather, status, error,
                activeLocation, extended, extendedData, extendedStatus,
                extendedError, savedTemps, loadingTemps, requestCooldowns,
                requestInFlight, pending, started, lastCall,
                lastStarted, lastSettled>>

vars == <<serverVars, clientVars>>

-----------------------------------------------------------------------------
(* Strings as sequences of pieces *)

\* String.prototype.trim on a sequence of characters
RECURSIVE TrimLeft(_)
TrimLeft(s) ==
    IF s = <<>> THEN <<>>
    ELSE IF Head(s) = " " THEN TrimLeft(Tail(s)) ELSE s

RECURSIVE TrimRight(_)
TrimRight(s) ==
    IF s = <<>> THEN <<>>
    ELSE IF s[Len(s)] = " " THEN TrimRight(SubSeq(s, 1, Len(s) - 1)) ELSE s

Trim(s) == TrimRight(TrimLeft(s))

\* String.prototype.startsWith
StartsWith(s, prefix) ==
    /\ Len(prefix) <= Len(s)
    /\ SubSeq(s, 1, Len(prefix)) = prefix

\* s.split(",")[0]: the characters before the first comma
RECURSIVE SplitFirst(_)
SplitFirst(s) ==
    IF s = <<>> THEN <<>>
    ELSE IF Head(s) = "," THEN <<>>
    ELSE <<Head(s)>> \o SplitFirst(Tail(s))

\* Math.max, Math.ceil(a / b) for a >= 0, b > 0
Max(a, b) == IF a >= b THEN a ELSE b

CeilDiv(a, b) == IF a <= 0 THEN -((-a) \div b) ELSE (a + b - 1) \div b

-----------------------------------------------------------------------------
(* Server: configuration and inputs *)

rateLimitWindowMs == 60000

rateLimitMax == 5

rateLimitPruneSize == 1000

rateLimitMessage == "Too many requests, please try again later."

\* Windows of server time the model runs through
MaxWindows == 1

\* Handler invocations that may be suspended at the same time
MaxActive == 1

\* Instants at which the server is observed: offsets into each window, chosen
\* so that an entry's reset time and the millisecond after it are both reached
ServerOffsets == {0, 1, 59000}

ServerInstants ==
    {k * rateLimitWindowMs + o : k \in 0..MaxWindows, o \in ServerOffsets}

HealthPath == <<"/api", "/health">>

WeatherPath == <<"/api", "/weather">>

ExtendedPath == <<"/api", "/weather", "/extended">>

Paths == {HealthPath, WeatherPath, ExtendedPath}

\* req.headers["x-forwarded-for"], req.ip, req.connection.remoteAddress
\* (<<>> stands for an absent or empty value of ip / remoteAddress)
Senders ==
    { [xff |-> [present |-> FALSE, value |-> <<>>], ip |-> <<"9">>, remote |-> <<"9">>],
      [xff |-> [present |-> TRUE, value |-> <<" ", "1", ",", " ", "2">>],
       ip |-> <<"9">>, remote |-> <<"9">>],
      [xff |-> [present |-> TRUE, value |-> <<>>], ip |-> <<>>, remote |-> <<>>] }

\* req.query: "" stands for an absent or empty parameter
QueryParams ==
    { [query |-> "", location |-> ""],
      [query |-> "Berlin", location |-> ""],
      [query |-> "", location |-> "Berlin"] }

Requests ==
    {[path |-> p, sender |-> c, params |-> q] :
        p \in Paths, c \in Senders, q \in QueryParams}

\* The requests of the rate limiter's specification: two senders, one query
GateRequests ==
    {r \in Requests : r.params.query # "" /\ r.sender.xff.present}

\* The requests of the handlers' specification: one sender, every query
RouteRequests == {r \in Requests : ~r.sender.xff.present}

\* The senders of the bucket key's specification: a connection without the
\* header, the same connection with two different first entries, with an
\* empty first entry and with an empty header, a connection whose address
\* is only in remoteAddress, and two senders with no address at all
KeySenders ==
    Senders \cup
    { [xff |-> [present |-> TRUE, value |-> <<"2", ",", "1">>],
       ip |-> <<"9">>, remote |-> <<"9">>],
      [xff |-> [present |-> TRUE, value |-> <<" ", ",", "2">>],
       ip |-> <<"9">>, remote |-> <<"9">>],
      [xff |-> [present |-> TRUE, value |-> <<>>], ip |-> <<"9">>, remote |-> <<"9">>],
      [xff |-> [present |-> FALSE, value |-> <<>>], ip |-> <<>>, remote |-> <<"7">>],
      [xff |-> [present |-> FALSE, value |-> <<>>], ip |-> <<>>, remote |-> <<>>] }

\* The requests of the bucket key's specification: every sender, one query
KeyRequests ==
    {[path |-> WeatherPath, sender |-> c, params |-> [query |-> "Berlin", location |-> ""]] :
        c \in KeySenders}

-----------------------------------------------------------------------------
(* Server: the rate limiter *)

getClientIpOfConnection(req) ==
    IF req.sender.ip # <<>> THEN req.sender.ip
    ELSE IF req.sender.remote # <<>> THEN req.sender.remote
    ELSE <<"unknown">>

getClientIp(req) ==
    LET forwarded == req.sender.xff IN
    IF forwarded.present /\ Len(forwarded.value) > 0
    THEN Trim(SplitFirst(forwarded.value))
    ELSE IF req.sender.ip # <<>> THEN req.sender.ip
    ELSE IF req.sender.remote # <<>> THEN req.sender.remote
    ELSE <<"unknown">>

RateLimitKeys == {getClientIp(r) : r \in Requests \cup KeyRequests}

shouldRateLimitAll(req) == TRUE

shouldRateLimit(req) == StartsWith(req.path, WeatherPath)

SweepAll(t, entry) == TRUE

\* line 257: the sweep deletes an entry when now > value.resetTime
SweepExpired(t, entry) == t > entry.resetTime

pruneRateLimitStoreAlways(store, t) ==
    LET kept == {k \in DOMAIN store : ~SweepExpired(t, store[k])}
    IN  [k \in kept |-> store[k]]

pruneRateLimitStore(store, t) ==
    IF Cardinality(DOMAIN store) < rateLimitPruneSize THEN store
    ELSE LET kept == {k \in DOMAIN store : ~SweepExpired(t, store[k])}
         IN  [k \in kept |-> store[k]]

\* line 269: now > entry.resetTime
WindowExpired(t, entry) == t > entry.resetTime

AtLimitOffByOne(entry) == entry.count > rateLimitMax

\* line 273: entry.count >= rateLimitMax
AtLimit(entry) == entry.count >= rateLimitMax

\* lines 274-277
RetryAfterSeconds(entry, t) == Max(1, CeilDiv(entry.resetTime - t, 1000))

NewWindowKeepsCount(store, ip, t) ==
    IF ip \in DOMAIN store
    THEN [count |-> store[ip].count, resetTime |-> t + rateLimitWindowMs]
    ELSE [count |-> 1, resetTime |-> t + rateLimitWindowMs]

\* line 270: the entry a new window starts with
NewWindow(store, ip, t) == [count |-> 1, resetTime |-> t + rateLimitWindowMs]

RejectedExtendsWindow(swept, ip, t) ==
    [swept EXCEPT ![ip].resetTime = t + rateLimitWindowMs]

\* lines 273-280: the store after a request was answered 429
RejectedStore(swept, ip, t) == swept

\* rateLimit(req, res, next): the store afterwards and what was done with
\* the request: "next" (handed on) or "429"
rateLimit(store, req, t) ==
    IF ~shouldRateLimit(req)
    THEN [store |-> store, out |-> "next", gated |-> FALSE, retryAfter |-> 0]
    ELSE
      LET swept == pruneRateLimitStore(store, t)
          ip    == getClientIp(req)
      IN
      IF ip \notin DOMAIN swept \/ WindowExpired(t, swept[ip])
      THEN [store |-> [k \in DOMAIN swept \cup {ip} |->
                          IF k = ip THEN NewWindow(swept, ip, t) ELSE swept[k]],
            out |-> "next", gated |-> TRUE, retryAfter |-> 0]
      ELSE IF AtLimit(swept[ip])
      THEN [store |-> RejectedStore(swept, ip, t), out |-> "429", gated |-> TRUE,
            retryAfter |-> RetryAfterSeconds(swept[ip], t)]
      ELSE [store |-> [swept EXCEPT ![ip].count = @ + 1],
            out |-> "next", gated |-> TRUE, retryAfter |-> 0]

-----------------------------------------------------------------------------
(* Server: the upstream provider and the upstream client *)

\* Days a forecast response may carry (the handler asks for days: 3)
ForecastDaysAsked == 3

\* What one upstream call may come to.  reach: fetch resolved; ok: response.ok;
\* json: response.json() resolved; err: the body's error member ("none": no
\* error member, "nomsg": an error object without message, "msg": with one);
\* days: the length of forecast.forecastday in the body
Unreachable == [reach |-> FALSE, ok |-> FALSE, json |-> FALSE, err |-> "none", days |-> 0]

UpstreamOutcomes ==
    {Unreachable}
    \cup {[reach |-> TRUE, ok |-> o, json |-> FALSE, err |-> "none", days |-> 0] :
             o \in BOOLEAN}
    \cup {[reach |-> TRUE, ok |-> o, json |-> TRUE, err |-> e, days |-> 0] :
             o \in BOOLEAN, e \in {"nomsg", "msg"}}
    \cup {[reach |-> TRUE, ok |-> FALSE, json |-> TRUE, err |-> "none", days |-> 0]}
    \cup {[reach |-> TRUE, ok |-> TRUE, json |-> TRUE, err |-> "none", days |-> n] :
             n \in 0..ForecastDaysAsked}

providerMessage == "No matching location found."

\* data?.error?.message
ErrorMessageOf(outcome) == IF outcome.err = "msg" THEN providerMessage ELSE ""

\* the forecastday array of a body: the forecast call's days start today, a
\* history call's single day is the date asked for
ForecastDates == <<"D+0", "D+1", "D+2", "D+3">>

HistoryDates == <<"D-1", "D-2">>

BodyDays(call, outcome) ==
    IF call = "forecast"
    THEN [i \in 1..outcome.days |-> [date |-> ForecastDates[i]]]
    ELSE IF outcome.days = 0 THEN <<>>
    ELSE IF call = "history1" THEN <<[date |-> HistoryDates[1]]>>
    ELSE <<[date |-> HistoryDates[2]]>>

\* a result of requestWeather: {error} or {data}; error "" stands for absent
NoResult == [settled |-> FALSE, error |-> "", hasData |-> FALSE, days |-> <<>>]

ErrorResult(message) ==
    [settled |-> TRUE, error |-> message, hasData |-> FALSE, days |-> <<>>]

DataResult(days) ==
    [settled |-> TRUE, error |-> "", hasData |-> TRUE, days |-> days]

\* lines 305-306: !response.ok || data?.error
UpstreamRejected(outcome) == ~outcome.ok \/ outcome.err # "none"

RejectionMessageGeneric(outcome) == "Weather service error"

\* line 306 (and 368): data?.error?.message || "Weather service error"
RejectionMessage(outcome) ==
    IF ErrorMessageOf(outcome) # "" THEN ErrorMessageOf(outcome)
    ELSE "Weather service error"

requestWeather(call, outcome) ==
    IF ~outcome.reach \/ ~outcome.json
    THEN ErrorResult("Unable to reach weather service")
    ELSE IF UpstreamRejected(outcome)
    THEN ErrorResult(RejectionMessage(outcome))
    ELSE DataResult(BodyDays(call, outcome))

mapForecastDay(day) == [date |-> day.date, shape |-> "forecast"]

mapHistoryDay(day) == [date |-> day.date, shape |-> "history"]

\* Array.prototype.map with each of the two mappers, slice(1), and
\* filter(Boolean) after map(... ?.[0])
MapForecastDays(s) == [i \in 1..Len(s) |-> mapForecastDay(s[i])]

MapHistoryDays(s) == [i \in 1..Len(s) |-> mapHistoryDay(s[i])]

SliceNone(s) == s

SliceFrom1(s) == IF Len(s) <= 1 THEN <<>> ELSE SubSeq(s, 2, Len(s))

RECURSIVE FirstDays(_)
FirstDays(results) ==
    IF results = <<>> THEN <<>>
    ELSE (IF Head(results).hasData /\ Len(Head(results).days) > 0
          THEN <<Head(results).days[1]>> ELSE <<>>)
         \o FirstDays(Tail(results))

\* historyResults.find((result) => result.error)?.error || ""
RECURSIVE FirstError(_)
FirstError(results) ==
    IF results = <<>> THEN ""
    ELSE IF Head(results).error # "" THEN Head(results).error
    ELSE FirstError(Tail(results))

-----------------------------------------------------------------------------
(* Server: responses and the route handlers *)

\* a response: its status, the member names of its JSON body (fields) and the
\* members the properties read; fc, hist, calls and first are what the handler
\* had got from upstream when it answered
NoResponse ==
    [path |-> <<>>, status |-> 0, fields |-> {}, error |-> "", retryAfter |-> 0,
     history |-> <<>>, forecast |-> <<>>, historyError |-> "",
     forecastError |-> "", fc |-> NoResult, hist |-> <<>>, calls |-> 0,
     first |-> 0]

\* res.status(code).json({ error })
ErrorResponse(path, code, message) ==
    [NoResponse EXCEPT !.path = path, !.status = code, !.fields = {"error"},
                       !.error = message]

\* line 343: res.json({ status: "ok", time })
HealthResponse(path) ==
    [NoResponse EXCEPT !.path = path, !.status = 200, !.fields = {"status", "time"}]

\* lines 375-395: res.json({ location, current, request, fetchedAt })
SnapshotResponse(inv) ==
    [NoResponse EXCEPT !.path = inv.path, !.status = 200,
                       !.fields = {"location", "current", "request", "fetchedAt"},
                       !.calls = inv.calls]

QueryOfQueryOnly(req) == req.params.query

\* const query = req.query.query || req.query.location
QueryOf(req) ==
    IF req.params.query # "" THEN req.params.query ELSE req.params.location

\* a handler invocation suspended at an await
Suspended(req, pc, calls) ==
    [path |-> req.path, query |-> QueryOf(req), pc |-> pc, fc |-> NoResult,
     hist |-> <<>>, calls |-> calls, first |-> 0]

RouteStartKeyFirst(req, key) ==
    IF req.path = HealthPath
    THEN [respond |-> TRUE, response |-> HealthResponse(req.path)]
    ELSE IF key = ""
    THEN [respond |-> TRUE,
          response |-> ErrorResponse(req.path, 500, "WEATHERAPI_KEY is not set")]
    ELSE IF QueryOf(req) = ""
    THEN [respond |-> TRUE,
          response |-> ErrorResponse(req.path, 400, "Missing query parameter")]
    ELSE [respond |-> FALSE,
          invocation |-> Suspended(req,
                                   IF req.path = WeatherPath THEN "current"
                                   ELSE "forecast", 1)]

\* The synchronous part of a route handler, up to its first await: either a
\* response, or the suspended invocation (with the upstream call it issued)
RouteStart(req, key) ==
    IF req.path = HealthPath
    THEN [respond |-> TRUE, response |-> HealthResponse(req.path)]
    ELSE IF QueryOf(req) = ""
    THEN [respond |-> TRUE,
          response |-> ErrorResponse(req.path, 400, "Missing query parameter")]
    ELSE IF key = ""
    THEN [respond |-> TRUE,
          response |-> ErrorResponse(req.path, 500, "WEATHERAPI_KEY is not set")]
    ELSE [respond |-> FALSE,
          invocation |-> Suspended(req,
                                   IF req.path = WeatherPath THEN "current"
                                   ELSE "forecast", 1)]

\* GET /api/weather after its upstream call settled (lines 363-398)
WeatherResponse(inv, outcome) ==
    IF ~outcome.reach \/ ~outcome.json
    THEN [ErrorResponse(inv.path, 502, "Unable to reach weather service")
             EXCEPT !.calls = inv.calls]
    ELSE IF UpstreamRejected(outcome)
    THEN [ErrorResponse(inv.path, 502, RejectionMessage(outcome))
             EXCEPT !.calls = inv.calls]
    ELSE SnapshotResponse(inv)

ForecastFailureIgnored(result) == FALSE

\* line 435: if (forecastResult.error)
ForecastFailed(result) == result.error # ""

\* line 436
ForecastFailureResponse(inv, result) ==
    [ErrorResponse(inv.path, 502, result.error)
        EXCEPT !.fc = result, !.hist = inv.hist, !.calls = inv.calls]

HistoryDaysReversed(results) ==
    MapHistoryDays(FirstDays([i \in 1..Len(results) |-> results[Len(results) + 1 - i]]))

\* lines 441-444
HistoryDays(results) == MapHistoryDays(FirstDays(results))

HistoryErrorOnlyWhenEmpty(results) ==
    IF FirstDays(results) = <<>> THEN FirstError(results) ELSE ""

HistoryErrorDropped(results) == ""

\* line 446
HistoryError(results) == FirstError(results)

\* lines 447-450
ForecastDays(result) ==
    IF result.hasData THEN MapForecastDays(SliceFrom1(result.days))
    ELSE <<>>

ForecastErrorNever(days) == ""

\* line 451
ForecastError(days) == IF Len(days) > 0 THEN "" ELSE "Forecast unavailable"

\* lines 453-464
ExtendedResponse(inv) ==
    [path |-> inv.path, status |-> 200,
     fields |-> {"location", "history", "forecast", "historyError",
                 "forecastError", "fetchedAt"},
     error |-> "", retryAfter |-> 0,
     history |-> HistoryDays(inv.hist),
     forecast |-> ForecastDays(inv.fc),
     historyError |-> HistoryError(inv.hist),
     forecastError |-> ForecastError(ForecastDays(inv.fc)),
     fc |-> inv.fc, hist |-> inv.hist, calls |-> inv.calls, first |-> inv.first]

RemoveAt(s, i) == SubSeq(s, 1, i - 1) \o SubSeq(s, i + 1, Len(s))

-----------------------------------------------------------------------------
(* Server: state and actions *)

\* the observers count a window's requests up to one past the maximum
Saturated(n) == IF n > rateLimitMax + 1 THEN rateLimitMax + 1 ELSE n

NoGate ==
    [key |-> <<>>, time |-> 0, path |-> <<>>, out |-> "none", gated |-> FALSE,
     retryAfter |-> 0, attempt |-> 0, opened |-> FALSE, hadEntry |-> FALSE,
     priorCount |-> 0, priorReset |-> 0, priorAttempts |-> 0,
     params |-> [query |-> "", location |-> ""], activeBefore |-> 0,
     sender |-> [xff |-> [present |-> FALSE, value |-> <<>>],
                 ip |-> <<>>, remote |-> <<>>]]

\* the observers' record of an upstream call that settled
NoUpstream == [call |-> "none", outcome |-> Unreachable, result |-> NoResult]

\* The store of a server that has been up for a while: rateLimitPruneSize - 2
\* keys 10.0.a.b.c, each counted once in a window opened before the run
\* begins, with reset times up to one window ahead
Digits == {"0", "1", "2", "3", "4", "5", "6", "7", "8", "9"}

EarlierKeys ==
    {<<"10.0", a, b, c>> : a \in Digits, b \in Digits, c \in Digits}
        \ {<<"10.0", "9", "9", "9">>, <<"10.0", "9", "9", "8">>}

EarlierReset(key) ==
    IF key[4] \in {"0", "1", "2", "3"} THEN 1
    ELSE IF key[4] \in {"4", "5", "6"} THEN 59000
    ELSE rateLimitWindowMs

EarlierStore ==
    [k \in EarlierKeys |-> [count |-> 1, resetTime |-> EarlierReset(k)]]

\* the server at the beginning of a run, with the store it has then
ServerStart(store) ==
    /\ now = 0
    /\ accessKey \in {"", "secret"}
    /\ rateLimitStore = store
    /\ active = <<>>
    /\ lastGate = NoGate
    /\ passed = [k \in RateLimitKeys |-> 0]
    /\ attempts = [k \in RateLimitKeys |-> 0]
    /\ lastResponse = NoResponse
    /\ lastUpstream = NoUpstream
    /\ gatedSenders = {}

\* the server after construction: const rateLimitStore = new Map()
ServerInit == ServerStart(<< >>)

\* Time passes on the server
ServerTick ==
    /\ UNCHANGED clientVars
    /\ /\ \E t \in ServerInstants : t > now /\ now' = t
       /\ lastGate' = NoGate
       /\ lastResponse' = NoResponse
       /\ lastUpstream' = NoUpstream
       /\ UNCHANGED <<accessKey, rateLimitStore, active, passed, attempts,
                      gatedSenders>>

\* A request arrives: app.use(rateLimit), then the route handler up to its
\* first await
Arrive(req) ==
    /\ UNCHANGED clientVars
    /\   LET g      == rateLimit(rateLimitStore, req, now)
             ip     == getClientIp(req)
             had    == ip \in DOMAIN rateLimitStore
             opened == g.gated /\ ip \in DOMAIN g.store
                       /\ (~had \/ g.store[ip].resetTime # rateLimitStore[ip].resetTime)
             start  == RouteStart(req, accessKey)
         IN
         /\ (g.out = "next" /\ ~start.respond) => Len(active) < MaxActive
         /\ rateLimitStore' = g.store
         /\ lastGate' =
               [key |-> ip, time |-> now, path |-> req.path, out |-> g.out,
                gated |-> g.gated, retryAfter |-> g.retryAfter,
                attempt |-> IF ~g.gated THEN 0
                            ELSE IF opened THEN 1 ELSE Saturated(attempts[ip] + 1),
                opened |-> opened, hadEntry |-> had,
                priorCount |-> IF had THEN rateLimitStore[ip].count ELSE 0,
                priorReset |-> IF had THEN rateLimitStore[ip].resetTime ELSE 0,
                priorAttempts |-> attempts[ip],
                params |-> req.params, activeBefore |-> Len(active),
                sender |-> req.sender]
         /\ gatedSenders' =
               IF g.gated THEN gatedSenders \cup {req.sender} ELSE gatedSenders
         /\ attempts' =
               IF ~g.gated THEN attempts
               ELSE [attempts EXCEPT ![ip] = IF opened THEN 1 ELSE Saturated(@ + 1)]
         /\ passed' =
               IF ~g.gated THEN passed
               ELSE [passed EXCEPT
                       ![ip] = IF opened THEN 1
                               ELSE IF g.out = "next" THEN @ + 1 ELSE @]
         /\ IF g.out = "429"
            THEN /\ lastResponse' =
                       [ErrorResponse(req.path, 429, rateLimitMessage)
                           EXCEPT !.retryAfter = g.retryAfter]
                 /\ active' = active
            ELSE IF start.respond
            THEN /\ lastResponse' = start.response
                 /\ active' = active
            ELSE /\ active' = Append(active, start.invocation)
                 /\ lastResponse' = NoResponse
         /\ lastUpstream' = NoUpstream
         /\ UNCHANGED <<now, accessKey>>

\* The upstream call of GET /api/weather settles
SettleCurrent ==
    /\ UNCHANGED clientVars
    /\ \E i \in 1..Len(active), outcome \in UpstreamOutcomes :
         /\ active[i].pc = "current"
         /\ lastResponse' = WeatherResponse(active[i], outcome)
         /\ lastUpstream' =
               [call |-> "current", outcome |-> outcome, result |-> NoResult]
         /\ active' = RemoveAt(active, i)
         /\ lastGate' = NoGate
         /\ UNCHANGED <<now, accessKey, rateLimitStore, passed, attempts,
                        gatedSenders>>

\* await requestWeather(forecastUrl) settles (lines 434-439)
SettleForecast ==
    /\ UNCHANGED clientVars
    /\ \E i \in 1..Len(active), outcome \in UpstreamOutcomes :
         LET result == requestWeather("forecast", outcome) IN
         /\ active[i].pc = "forecast"
         /\ IF ForecastFailed(result)
            THEN /\ lastResponse' = ForecastFailureResponse(active[i], result)
                 /\ active' = RemoveAt(active, i)
            ELSE /\ active' = [active EXCEPT ![i] =
                                 [@ EXCEPT !.pc = "history", !.fc = result,
                                           !.hist = <<NoResult, NoResult>>,
                                           !.calls = @ + 2]]
                 /\ lastResponse' = NoResponse
         /\ lastUpstream' =
               [call |-> "forecast", outcome |-> outcome, result |-> result]
         /\ lastGate' = NoGate
         /\ UNCHANGED <<now, accessKey, rateLimitStore, passed, attempts,
                        gatedSenders>>

\* One of the two history calls settles; when both have, Promise.all resolves
\* and the handler composes the response (lines 439-464)
SettleHistory ==
    /\ UNCHANGED clientVars
    /\ \E i \in 1..Len(active), j \in 1..2, outcome \in UpstreamOutcomes :
         /\ active[i].pc = "history"
         /\ ~active[i].hist[j].settled
         /\ LET call == IF j = 1 THEN "history1" ELSE "history2"
                inv  == [active[i] EXCEPT !.hist[j] = requestWeather(call, outcome),
                                          !.first = IF @ = 0 THEN j ELSE @]
            IN
            /\ IF \A k \in 1..2 : inv.hist[k].settled
               THEN /\ lastResponse' = ExtendedResponse(inv)
                    /\ active' = RemoveAt(active, i)
               ELSE /\ active' = [active EXCEPT ![i] = inv]
                    /\ lastResponse' = NoResponse
            /\ lastUpstream' =
                  [call |-> call, outcome |-> outcome, result |-> inv.hist[j]]
         /\ lastGate' = NoGate
         /\ UNCHANGED <<now, accessKey, rateLimitStore, passed, attempts,
                        gatedSenders>>

\* The rate limiter seen from two senders
GateArrive == \E req \in GateRequests : Arrive(req)

\* The routes seen from one sender
RouteArrive == \E req \in RouteRequests : Arrive(req)

\* Requests the bucket key's specification lets arrive in one run
MaxKeyArrivals == 3

\* the requests counted in the store
RECURSIVE TotalCount(_)
TotalCount(store) ==
    IF DOMAIN store = {} THEN 0
    ELSE LET k == CHOOSE k \in DOMAIN store : TRUE
         IN  store[k].count + TotalCount([j \in DOMAIN store \ {k} |-> store[j]])

\* The bucket key seen from every kind of sender
KeyArrive ==
    \E req \in KeyRequests :
       /\ TotalCount(rateLimitStore) < MaxKeyArrivals
       /\ Arrive(req)

KeyNext == KeyArrive

\* The requests of the sweep's specification: two senders, a gated path and
\* the health check
SweepRequests == {r \in GateRequests : r.path \in {WeatherPath, HealthPath}}

\* Requests the sweep's specification counts for its senders in one window
MaxSweepArrivals == 3

SweepArrive ==
    \E req \in SweepRequests :
       /\ TotalCount([k \in DOMAIN rateLimitStore \cap RateLimitKeys |->
                         rateLimitStore[k]]) < MaxSweepArrivals
       /\ Arrive(req)

SweepNext ==
    \/ ServerTick
    \/ SweepArrive

GateNext ==
    \/ ServerTick
    \/ GateArrive

ServerNext ==
    \/ RouteArrive
    \/ SettleCurrent
    \/ SettleForecast
    \/ SettleHistory

-----------------------------------------------------------------------------
(* Client: configuration and inputs *)

cacheTtlMs == 300000

throttleMs == 1200

\* Network requests the browser starts in one run
MaxRequests == 2

\* Instants at which the browser is observed: T, T + 500, T + ttl - 1 and
\* T + ttl + 1, where T is the instant the page was loaded.  Date.now() is
\* far from 0: T is late enough that an absent cooldown (read as 0) is not
\* within throttleMs of it.
ClientInstants ==
    {throttleMs + o : o \in {0, 500, cacheTtlMs - 1, cacheTtlMs + 1}}

Berlin == <<"B", "e", "r", "l", "i", "n">>

berlin == <<"b", "e", "r", "l", "i", "n">>

Kyoto == <<"K", "y", "o", "t", "o">>

defaultLocation == Berlin

\* useState quickLocations, as the user saved it in the edit form
\* (normalizeLocations keeps entries that differ only in case)
quickLocations == <<Berlin, berlin>>

\* What the user may type into the search box
TypedInputs == {<<" ">> \o Kyoto \o <<" ">>, <<" ", " ">>, berlin}

\* String.prototype.toLowerCase
LowerChar(c) ==
    CASE c = "B" -> "b"
      [] c = "K" -> "k"
      [] OTHER   -> c

ToLowerCase(s) == [i \in 1..Len(s) |-> LowerChar(s[i])]

\* The cleaned locations that occur
Locations == {Berlin, berlin, Kyoto}

\* `weather:${cleaned.toLowerCase()}` and its quick: and extended: siblings
ThrottleKey(kind, cleaned) == <<kind, ":">> \o ToLowerCase(cleaned)

Kinds == {"weather", "quick", "extended"}

\* A network request: the function that started it, its location, its key
NetRequest(kind, cleaned) ==
    [kind |-> kind, cleaned |-> cleaned, key |-> ThrottleKey(kind, cleaned)]

NetRequests == {NetRequest(k, l) : k \in Kinds, l \in Locations}

ThrottleKeys == {r.key : r \in NetRequests}

\* How a network request may settle: "ok" (an OK status and a body without
\* an error member), "network" (fetch or json() threw), "status" (a non-OK
\* status such as 429 or 502), "error" (an OK status and a body whose error
\* member is a message), "emptyError" (an OK status and a body whose error
\* member is "", null, false or 0)
NetOutcomes == {"ok", "network", "status", "error", "emptyError"}

SucceededAlways(outcome) == TRUE

\* lines 401-405, 435-439, 499-503: the function goes on to cache the body
\* unless fetch or json() threw or (!response.ok || data.error) holds
Succeeded(outcome) == outcome \in {"ok", "emptyError"}

-----------------------------------------------------------------------------
(* Client: cache helpers *)

\* an entry as cached: { ...data, cachedAt: Date.now() }
CachedData(cleaned, t) == [loc |-> cleaned, cachedAt |-> t]

parseCachedAt(entry) == entry.cachedAt

isCacheFreshNever(entry, t) == FALSE

isCacheFreshLate(entry, t) ==
    IF parseCachedAt(entry) = 0 THEN FALSE
    ELSE t - parseCachedAt(entry) < cacheTtlMs + throttleMs

\* lines 89-93
isCacheFresh(entry, t) ==
    IF parseCachedAt(entry) = 0 THEN FALSE
    ELSE t - parseCachedAt(entry) < cacheTtlMs

Has(cache, cleaned) == cleaned \in DOMAIN cache

\* const next = { ...prev }; delete next[cleaned]
Without(cache, cleaned) == [k \in DOMAIN cache \ {cleaned} |-> cache[k]]

\* { ...prev, [cleaned]: cachedData }
With(cache, cleaned, entry) ==
    [k \in DOMAIN cache \cup {cleaned} |-> IF k = cleaned THEN entry ELSE cache[k]]

\* quickLocations.find((item) => item.toLowerCase() === location.toLowerCase())
RECURSIVE FindIgnoringCase(_, _)
FindIgnoringCase(list, location) ==
    IF list = <<>> THEN <<>>
    ELSE IF ToLowerCase(Head(list)) = ToLowerCase(location) THEN Head(list)
    ELSE FindIgnoringCase(Tail(list), location)

\* recordSavedTemp (lines 346-358): the savedTemps afterwards
recordSavedTemp(temps, location, data) ==
    LET found == FindIgnoringCase(quickLocations, location)
        key   == IF found # <<>> THEN found ELSE location
    IN  With(temps, key, data.loc)

ThrottledNever(t, last) == FALSE

\* line 294: now - last < throttleMs
Throttled(t, last) == t - last < throttleMs

CooldownOf(cooldowns, key) == IF key \in DOMAIN cooldowns THEN cooldowns[key] ELSE 0

shouldThrottleForced(cooldowns, key, force, t) ==
    IF Throttled(t, CooldownOf(cooldowns, key))
    THEN [throttle |-> TRUE, cooldowns |-> cooldowns]
    ELSE [throttle |-> FALSE, cooldowns |-> With(cooldowns, key, t)]

\* shouldThrottle (lines 290-297): the answer, and requestCooldowns afterwards
shouldThrottle(cooldowns, key, force, t) ==
    IF force THEN [throttle |-> FALSE, cooldowns |-> cooldowns]
    ELSE IF Throttled(t, CooldownOf(cooldowns, key))
    THEN [throttle |-> TRUE, cooldowns |-> cooldowns]
    ELSE [throttle |-> FALSE, cooldowns |-> With(cooldowns, key, t)]

isInFlightNever(flags, key) == FALSE

\* line 299
isInFlight(flags, key) == key \in flags

markRequestStartLost(flags, key) == flags

\* lines 301-303
markRequestStart(flags, key) == flags \cup {key}

markRequestEndLost(flags, key) == flags

\* lines 305-307
markRequestEnd(flags, key) == flags \ {key}

-----------------------------------------------------------------------------
(* Client: the fetch functions, each up to its first await *)

weatherVars == <<weatherCache, weather, status, error, activeLocation,
                 savedTemps>>

extendedVars == <<extended, extendedData, extendedStatus, extendedError>>

refVars == <<requestCooldowns, requestInFlight, pending>>

\* useEffect(..., [activeLocation]) (lines 252-257): runs when the value changed
ActiveLocationEffect(cleaned) ==
    IF cleaned # activeLocation
    THEN /\ extended' = FALSE
         /\ extendedData' = <<>>
         /\ extendedStatus' = "idle"
         /\ extendedError' = ""
    ELSE UNCHANGED extendedVars

\* the network request of a fetch function leaves
StartRequest(kind, cleaned) ==
    pending' = [pending EXCEPT ![NetRequest(kind, cleaned)] = @ + 1]

\* fetchWeather (lines 360-397)
fetchWeather(location, force) ==
    LET cleaned == Trim(location) IN
    IF cleaned = <<>>
    THEN UNCHANGED <<weatherVars, extendedVars, refVars>>
    ELSE
      LET has     == Has(weatherCache, cleaned)
          isFresh == ~force /\ has /\ isCacheFresh(weatherCache[cleaned], clock)
          key     == ThrottleKey("weather", cleaned)
          th      == shouldThrottle(requestCooldowns, key, force, clock)
      IN
      /\ weatherCache' =
            IF has /\ ~isCacheFresh(weatherCache[cleaned], clock)
            THEN Without(weatherCache, cleaned) ELSE weatherCache
      /\ activeLocation' = cleaned
      /\ ActiveLocationEffect(cleaned)
      /\ IF isFresh
         THEN /\ weather' = <<weatherCache[cleaned]>>
              /\ savedTemps' = recordSavedTemp(savedTemps, cleaned, weatherCache[cleaned])
              /\ status' = "ready"
              /\ error' = ""
              /\ UNCHANGED refVars
         ELSE IF isInFlight(requestInFlight, key)
         THEN /\ IF has
                 THEN /\ weather' = <<weatherCache[cleaned]>>
                      /\ savedTemps' =
                            recordSavedTemp(savedTemps, cleaned, weatherCache[cleaned])
                      /\ status' = "ready"
                      /\ error' = ""
                 ELSE UNCHANGED <<weather, savedTemps, status, error>>
              /\ UNCHANGED refVars
         ELSE IF th.throttle
         THEN /\ IF has
                 THEN /\ weather' = <<weatherCache[cleaned]>>
                      /\ savedTemps' =
                            recordSavedTemp(savedTemps, cleaned, weatherCache[cleaned])
                      /\ status' = "ready"
                      /\ error' = ""
                 ELSE UNCHANGED <<weather, savedTemps, status, error>>
              /\ requestCooldowns' = th.cooldowns
              /\ UNCHANGED <<requestInFlight, pending>>
         ELSE /\ status' = "loading"
              /\ error' = ""
              /\ requestCooldowns' = th.cooldowns
              /\ requestInFlight' = markRequestStart(requestInFlight, key)
              /\ StartRequest("weather", cleaned)
              /\ UNCHANGED <<weather, savedTemps>>

\* fetchQuickTemperature (lines 420-431)
fetchQuickTemperature(location) ==
    LET cleaned == Trim(location) IN
    IF cleaned = <<>>
    THEN UNCHANGED <<savedTemps, loadingTemps, refVars>>
    ELSE
      LET has == Has(weatherCache, cleaned)
          key == ThrottleKey("quick", cleaned)
          th  == shouldThrottle(requestCooldowns, key, FALSE, clock)
      IN
      IF has /\ isCacheFresh(weatherCache[cleaned], clock)
      THEN /\ savedTemps' = recordSavedTemp(savedTemps, cleaned, weatherCache[cleaned])
           /\ UNCHANGED <<loadingTemps, refVars>>
      ELSE IF isInFlight(requestInFlight, key)
      THEN UNCHANGED <<savedTemps, loadingTemps, refVars>>
      ELSE IF th.throttle
      THEN /\ requestCooldowns' = th.cooldowns
           /\ UNCHANGED <<savedTemps, loadingTemps, requestInFlight, pending>>
      ELSE /\ loadingTemps' = loadingTemps \cup {cleaned}
           /\ requestCooldowns' = th.cooldowns
           /\ requestInFlight' = markRequestStart(requestInFlight, key)
           /\ StartRequest("quick", cleaned)
           /\ UNCHANGED savedTemps

\* showCachedWeather (lines 450-463)
showCachedWeather(location) ==
    LET cleaned == Trim(location) IN
    IF cleaned = <<>>
    THEN UNCHANGED <<weatherVars, extendedVars, refVars>>
    ELSE IF Has(weatherCache, cleaned) /\ isCacheFresh(weatherCache[cleaned], clock)
    THEN /\ activeLocation' = cleaned
         /\ ActiveLocationEffect(cleaned)
         /\ weather' = <<weatherCache[cleaned]>>
         /\ status' = "ready"
         /\ error' = ""
         /\ UNCHANGED <<weatherCache, savedTemps, refVars>>
    ELSE fetchWeather(cleaned, TRUE)

\* fetchExtended (lines 465-495)
fetchExtended(location, force) ==
    LET cleaned == Trim(location) IN
    IF cleaned = <<>>
    THEN UNCHANGED <<extendedCache, extendedData, extendedStatus, extendedError,
                     refVars>>
    ELSE
      LET has     == Has(extendedCache, cleaned)
          isFresh == ~force /\ has /\ isCacheFresh(extendedCache[cleaned], clock)
          key     == ThrottleKey("extended", cleaned)
          th      == shouldThrottle(requestCooldowns, key, force, clock)
      IN
      /\ extendedCache' =
            IF has /\ ~isCacheFresh(extendedCache[cleaned], clock)
            THEN Without(extendedCache, cleaned) ELSE extendedCache
      /\ IF isFresh
         THEN /\ extendedData' = <<extendedCache[cleaned]>>
              /\ extendedStatus' = "ready"
              /\ extendedError' = ""
              /\ UNCHANGED refVars
         ELSE IF isInFlight(requestInFlight, key)
         THEN /\ IF has
                 THEN /\ extendedData' = <<extendedCache[cleaned]>>
                      /\ extendedStatus' = "ready"
                      /\ extendedError' = ""
                 ELSE UNCHANGED <<extendedData, extendedStatus, extendedError>>
              /\ UNCHANGED refVars
         ELSE IF th.throttle
         THEN /\ IF has
                 THEN /\ extendedData' = <<extendedCache[cleaned]>>
                      /\ extendedStatus' = "ready"
                      /\ extendedError' = ""
                 ELSE UNCHANGED <<extendedData, extendedStatus, extendedError>>
              /\ requestCooldowns' = th.cooldowns
              /\ UNCHANGED <<requestInFlight, pending>>
         ELSE /\ extendedStatus' = "loading"
              /\ extendedError' = ""
              /\ requestCooldowns' = th.cooldowns
              /\ requestInFlight' = markRequestStart(requestInFlight, key)
              /\ StartRequest("extended", cleaned)
              /\ UNCHANGED extendedData

-----------------------------------------------------------------------------
(* Client: state and actions *)

NoSettle == [kind |-> "none", cleaned |-> <<>>, outcome |-> "none"]

NoCall ==
    [fn |-> "none", kind |-> "none", cleaned |-> <<>>, force |-> FALSE,
     cachedBefore |-> <<>>, wasInFlight |-> FALSE, cooldownAge |-> -1,
     startedAge |-> -1, issued |-> FALSE, displayed |-> <<>>]

ClientInit ==
    /\ clock = throttleMs
    /\ weatherCache = << >>
    /\ extendedCache = << >>
    /\ weather = <<>>
    /\ status = "idle"
    /\ error = ""
    /\ activeLocation = defaultLocation
    /\ extended = FALSE
    /\ extendedData = <<>>
    /\ extendedStatus = "idle"
    /\ extendedError = ""
    /\ savedTemps = << >>
    /\ loadingTemps = {}
    /\ requestCooldowns = << >>
    /\ requestInFlight = {}
    /\ pending = [r \in NetRequests |-> 0]
    /\ started = 0
    /\ lastCall = NoCall
    /\ lastStarted = << >>
    /\ lastSettled = NoSettle

\* The observers' record of a call of a fetch function; cache and shown are
\* the cache the function reads and the entry on display after the call
Observe(fn, kind, location, force, cache, shown, shownStatus) ==
    LET cleaned == Trim(location)
        key     == ThrottleKey(kind, cleaned)
        req     == NetRequest(kind, cleaned)
        issued  == pending'[req] > pending[req]
        before  == IF Has(cache, cleaned) THEN <<cache[cleaned]>> ELSE <<>>
    IN
    /\ lastCall' =
          [fn |-> fn, kind |-> kind, cleaned |-> cleaned, force |-> force,
           cachedBefore |-> before,
           wasInFlight |-> \E r \in NetRequests : r.key = key /\ pending[r] > 0,
           cooldownAge |-> IF key \in DOMAIN requestCooldowns
                           THEN clock - requestCooldowns[key] ELSE -1,
           startedAge |-> IF key \in DOMAIN lastStarted
                          THEN clock - lastStarted[key] ELSE -1,
           issued |-> issued,
           displayed |-> IF ~issued /\ shownStatus = "ready" /\ before # <<>>
                            /\ shown = before
                         THEN shown ELSE <<>>]
    /\ started' = IF issued THEN started + 1 ELSE started
    /\ lastStarted' = IF issued THEN With(lastStarted, key, clock) ELSE lastStarted
    /\ lastSettled' = NoSettle
    /\ started' <= MaxRequests

\* Time passes in the browser
ClientTick ==
    /\ UNCHANGED serverVars
    /\ /\ \E t \in ClientInstants : t > clock /\ clock' = t
       /\ lastCall' = NoCall
       /\ lastSettled' = NoSettle
       /\ UNCHANGED <<weatherCache, extendedCache, weather, status, error,
                      activeLocation, extended, extendedData, extendedStatus,
                      extendedError, savedTemps, loadingTemps, requestCooldowns,
                      requestInFlight, pending, started, lastStarted>>

\* A quick-location button of the location switcher (line 624)
ClickQuickLocation ==
    /\ UNCHANGED serverVars
    /\ \E i \in 1..Len(quickLocations) :
         /\ ~extended
         /\ fetchWeather(quickLocations[i], FALSE)
         /\ Observe("fetchWeather", "weather", quickLocations[i], FALSE,
                    weatherCache, weather', status')
         /\ UNCHANGED <<clock, extendedCache, loadingTemps>>

\* The search form (lines 812-819): const next = input.trim(); if (next) ...
SubmitSearch ==
    /\ UNCHANGED serverVars
    /\ \E input \in TypedInputs :
         LET next == Trim(input) IN
         /\ ~extended
         /\ IF next # <<>>
            THEN /\ fetchWeather(next, TRUE)
                 /\ Observe("fetchWeather", "weather", next, TRUE,
                            weatherCache, weather', status')
                 /\ UNCHANGED <<clock, extendedCache, loadingTemps>>
            ELSE UNCHANGED clientVars

\* The View button of a quick-location card (line 1040); enabled only while
\* the card had a cached entry when it was rendered
ClickView ==
    /\ UNCHANGED serverVars
    /\ \E i \in 1..Len(quickLocations) :
         /\ ~extended
         /\ Has(weatherCache, quickLocations[i])
         /\ showCachedWeather(quickLocations[i])
         /\ Observe(IF isCacheFresh(weatherCache[quickLocations[i]], clock)
                    THEN "showCachedWeather" ELSE "fetchWeather",
                    "weather", quickLocations[i], TRUE,
                    weatherCache, weather', status')
         /\ UNCHANGED <<clock, extendedCache, loadingTemps>>

\* The load button of a quick-location card (line 1057); disabled while loading
ClickLoad ==
    /\ UNCHANGED serverVars
    /\ \E i \in 1..Len(quickLocations) :
         /\ ~extended
         /\ quickLocations[i] \notin loadingTemps
         /\ fetchQuickTemperature(quickLocations[i])
         /\ Observe("fetchQuickTemperature", "quick", quickLocations[i], FALSE,
                    weatherCache, <<>>, "")
         /\ UNCHANGED <<clock, weatherCache, extendedCache, weather, status, error,
                        activeLocation, extended, extendedData, extendedStatus,
                        extendedError>>

\* The Extended Outlook button (lines 989-995)
ToggleExtended ==
    /\ UNCHANGED serverVars
    /\ IF ~extended
       THEN /\ extended' = TRUE
            /\ fetchExtended(activeLocation, FALSE)
            /\ Observe("fetchExtended", "extended", activeLocation, FALSE,
                       extendedCache, extendedData', extendedStatus')
            /\ UNCHANGED <<clock, weatherCache, weather, status, error,
                           activeLocation, savedTemps, loadingTemps>>
       ELSE /\ extended' = FALSE
            /\ UNCHANGED <<clock, weatherCache, extendedCache, weather, status,
                           error, activeLocation, extendedData, extendedStatus,
                           extendedError, savedTemps, loadingTemps,
                           requestCooldowns, requestInFlight, pending, started,
                           lastCall, lastStarted>>
              /\ lastSettled' = NoSettle

\* The Refresh button of the modal (line 1172)
ClickRefresh ==
    /\ UNCHANGED serverVars
    /\ /\ extended
       /\ fetchExtended(activeLocation, TRUE)
       /\ Observe("fetchExtended", "extended", activeLocation, TRUE,
                  extendedCache, extendedData', extendedStatus')
       /\ UNCHANGED <<clock, weatherCache, weather, status, error, activeLocation,
                      extended, savedTemps, loadingTemps>>

SettleWeatherSilent(r, outcome) ==
    /\ IF Succeeded(outcome)
       THEN LET cachedData == CachedData(r.cleaned, clock) IN
            /\ weather' = <<cachedData>>
            /\ weatherCache' = With(weatherCache, r.cleaned, cachedData)
            /\ savedTemps' = recordSavedTemp(savedTemps, r.cleaned, cachedData)
            /\ status' = "ready"
            /\ error' = error
       ELSE UNCHANGED <<status, error, weather, weatherCache, savedTemps>>
    /\ requestInFlight' = markRequestEnd(requestInFlight, r.key)
    /\ UNCHANGED <<extendedCache, activeLocation, extended, extendedData,
                   extendedStatus, extendedError, loadingTemps>>

\* fetchWeather after its await (lines 398-417)
SettleWeather(r, outcome) ==
    /\ IF Succeeded(outcome)
       THEN LET cachedData == CachedData(r.cleaned, clock) IN
            /\ weather' = <<cachedData>>
            /\ weatherCache' = With(weatherCache, r.cleaned, cachedData)
            /\ savedTemps' = recordSavedTemp(savedTemps, r.cleaned, cachedData)
            /\ status' = "ready"
            /\ error' = error
       ELSE /\ status' = "error"
            /\ error' = "Unable to fetch weather data"
            /\ UNCHANGED <<weather, weatherCache, savedTemps>>
    /\ requestInFlight' = markRequestEnd(requestInFlight, r.key)
    /\ UNCHANGED <<extendedCache, activeLocation, extended, extendedData,
                   extendedStatus, extendedError, loadingTemps>>

\* fetchQuickTemperature after its await (lines 432-447)
SettleQuick(r, outcome) ==
    /\ IF Succeeded(outcome)
       THEN LET cachedData == CachedData(r.cleaned, clock) IN
            /\ weatherCache' = With(weatherCache, r.cleaned, cachedData)
            /\ savedTemps' = recordSavedTemp(savedTemps, r.cleaned, cachedData)
       ELSE UNCHANGED <<weatherCache, savedTemps>>
    /\ loadingTemps' = loadingTemps \ {r.cleaned}
    /\ requestInFlight' = markRequestEnd(requestInFlight, r.key)
    /\ UNCHANGED <<extendedCache, weather, status, error, activeLocation,
                   extended, extendedData, extendedStatus, extendedError>>

\* fetchExtended after its await (lines 496-513)
SettleExtended(r, outcome) ==
    /\ IF Succeeded(outcome)
       THEN LET cachedData == CachedData(r.cleaned, clock) IN
            /\ extendedData' = <<cachedData>>
            /\ extendedCache' = With(extendedCache, r.cleaned, cachedData)
            /\ extendedStatus' = "ready"
            /\ extendedError' = extendedError
       ELSE /\ extendedStatus' = "error"
            /\ extendedError' = "Unable to fetch extended weather data"
            /\ UNCHANGED <<extendedData, extendedCache>>
    /\ requestInFlight' = markRequestEnd(requestInFlight, r.key)
    /\ UNCHANGED <<weatherCache, weather, status, error, activeLocation,
                   extended, savedTemps, loadingTemps>>

\* The network request r settles and its function resumes
SettleRequest(r) ==
    /\ UNCHANGED serverVars
    /\ \E outcome \in NetOutcomes :
         /\ pending[r] > 0
         /\ pending' = [pending EXCEPT ![r] = @ - 1]
         /\ CASE r.kind = "weather"  -> SettleWeather(r, outcome)
              [] r.kind = "quick"    -> SettleQuick(r, outcome)
              [] r.kind = "extended" -> SettleExtended(r, outcome)
         /\ lastCall' = NoCall
         /\ lastSettled' = [kind |-> r.kind, cleaned |-> r.cleaned,
                            outcome |-> outcome]
         /\ UNCHANGED <<clock, requestCooldowns, started, lastStarted>>

Settle == \E r \in NetRequests : SettleRequest(r)

ClientNext ==
    \/ ClientTick
    \/ ClickQuickLocation
    \/ SubmitSearch
    \/ ClickView
    \/ ClickLoad
    \/ ToggleExtended
    \/ ClickRefresh
    \/ Settle

-----------------------------------------------------------------------------
(* The specifications *)

Init == ServerInit /\ ClientInit

\* a server whose provider key is unset: every handler answers at once
InitKeyUnset == Init /\ accessKey = ""

\* the rate limiter of a server whose provider key is unset, so that the gate
\* is all that keeps state
SpecGate == InitKeyUnset /\ [][GateNext]_vars

\* the routes within one rate-limit window (SpecGate is where windows pass)
SpecServer == Init /\ [][ServerNext]_vars

SpecClient == InitKeyUnset /\ [][ClientNext]_vars

\* the client when every network request that was started settles: fetch
\* and json() resolve or reject, and the function resumes after its await
SettlesEventually == \A r \in NetRequests : WF_vars(SettleRequest(r))

SpecClientLive == InitKeyUnset /\ [][ClientNext]_vars /\ SettlesEventually

\* the bucket key of the rate limiter, for every kind of sender
SpecKey == InitKeyUnset /\ [][KeyNext]_vars

\* a server that has been up for a while, its store two keys short of the
\* size at which the sweep runs
InitSweep == ServerStart(EarlierStore) /\ accessKey = "" /\ ClientInit

SpecSweep == InitSweep /\ [][SweepNext]_vars

-----------------------------------------------------------------------------
(* Properties of the rate limiter (SpecGate) *)

\* C1: for every key of the rate-limit store the stored count lies between 1
\* and rateLimitMax, and no more than rateLimitMax gated requests of one key
\* were let through since the key's window entry was created.
C1_CountWithinMax ==
    \A k \in DOMAIN rateLimitStore :
       /\ rateLimitStore[k].count >= 1
       /\ rateLimitStore[k].count <= rateLimitMax
       /\ passed[k] <= rateLimitMax
       /\ passed[k] = rateLimitStore[k].count

\* a key at its maximum whose next request was answered 429
C1_Witness ==
    /\ lastGate.out = "429"
    /\ lastGate.key \in DOMAIN rateLimitStore
    /\ rateLimitStore[lastGate.key].count = rateLimitMax
    /\ passed[lastGate.key] = rateLimitMax

\* C2: with max = 5 and window = 60000 ms, the first 5 gated requests of a key
\* inside a window are let through, the 6th (and any later one) in that window
\* is answered 429 with a Retry-After of at least 1 second, and the first
\* request of the key after its reset time has passed is let through and
\* leaves the key at count 1 with reset time now + window.
C2_FiveThenReject ==
    /\ rateLimitMax = 5
    /\ rateLimitWindowMs = 60000
    /\ lastGate.gated =>
         /\ lastGate.attempt \in 1..rateLimitMax => lastGate.out = "next"
         /\ lastGate.attempt > rateLimitMax =>
              /\ lastGate.out = "429"
              /\ lastGate.retryAfter >= 1
              /\ lastResponse.status = 429
              /\ lastResponse.retryAfter = lastGate.retryAfter
         /\ (lastGate.hadEntry /\ lastGate.time > lastGate.priorReset) =>
              /\ lastGate.out = "next"
              /\ rateLimitStore[lastGate.key] =
                    [count |-> 1, resetTime |-> lastGate.time + rateLimitWindowMs]

\* a key whose sixth request was rejected sends its first request after the
\* window and is let through
C2_Witness ==
    /\ lastGate.gated
    /\ lastGate.hadEntry
    /\ lastGate.priorCount = rateLimitMax
    /\ lastGate.priorAttempts > rateLimitMax
    /\ lastGate.time > lastGate.priorReset
    /\ lastGate.out = "next"
    /\ rateLimitStore[lastGate.key].count = 1

-----------------------------------------------------------------------------
(* Properties of the extended endpoint (SpecServer) *)

\* C9: a response of GET /api/weather/extended whose forecast call failed is
\* a 502 with a non-empty error, whatever became of the history calls.
C9_ForecastFailureIs502 ==
    (/\ lastResponse.path = ExtendedPath
     /\ lastResponse.fc.settled
     /\ lastResponse.fc.error # "") =>
        /\ lastResponse.status = 502
        /\ lastResponse.error # ""
        /\ lastResponse.error = lastResponse.fc.error

\* the forecast call came to an HTTP error and the request was answered 502
C9_Witness ==
    /\ lastResponse.path = ExtendedPath
    /\ lastResponse.fc.settled
    /\ lastResponse.fc.error = "Weather service error"
    /\ lastResponse.status = 502

\* both history calls of the answered request failed, its forecast call did not
C10_BothHistoryFailed ==
    /\ lastResponse.path = ExtendedPath
    /\ lastResponse.fc.hasData
    /\ Len(lastResponse.hist) = 2
    /\ \A j \in 1..2 : lastResponse.hist[j].settled /\ lastResponse.hist[j].error # ""

\* C10 as stated: both history calls failed and the forecast call succeeded,
\* so the response is 200, history is empty, historyError is non-empty and
\* forecast is non-empty.
C10_AsStated ==
    C10_BothHistoryFailed =>
        /\ lastResponse.status = 200
        /\ lastResponse.history = <<>>
        /\ lastResponse.historyError # ""
        /\ lastResponse.forecast # <<>>

\* C10, amended: both history calls failed and the forecast call succeeded, so
\* the response is 200, history is empty and historyError is non-empty;
\* forecast is non-empty exactly when the upstream forecast carried at least 2
\* forecastday entries, and otherwise forecast is empty and forecastError is
\* 'Forecast unavailable'.
C10_HistoryFailureIs200 ==
    C10_BothHistoryFailed =>
        /\ lastResponse.status = 200
        /\ lastResponse.history = <<>>
        /\ lastResponse.historyError # ""
        /\ lastResponse.historyError = lastResponse.hist[1].error
        /\ IF Len(lastResponse.fc.days) >= 2
           THEN /\ lastResponse.forecast # <<>>
                /\ lastResponse.forecastError = ""
           ELSE /\ lastResponse.forecast = <<>>
                /\ lastResponse.forecastError = "Forecast unavailable"

\* both history calls failed under a forecast of all the days asked for
C10_Witness ==
    /\ C10_BothHistoryFailed
    /\ Len(lastResponse.fc.days) = ForecastDaysAsked
    /\ lastResponse.status = 200
    /\ Len(lastResponse.forecast) = ForecastDaysAsked - 1

\* the last response is one of GET /api/weather/extended after its forecast
\* call settled
AfterForecastRetrieval ==
    lastResponse.path = ExtendedPath /\ lastResponse.fc.settled

\* the member names of an ExtendedOutlook body
OutlookFields ==
    {"location", "history", "forecast", "historyError", "forecastError", "fetchedAt"}

\* C11 as stated: every response of GET /api/weather/extended that got as far
\* as forecast retrieval is a 200 that carries a forecast and a history
\* member, a failed forecast being told by forecastError and a failed history
\* call by historyError.
C11_AsStated ==
    AfterForecastRetrieval =>
        /\ lastResponse.status = 200
        /\ {"forecast", "history"} \subseteq lastResponse.fields
        /\ lastResponse.fc.error # "" => lastResponse.forecastError # ""
        /\ (\E j \in 1..Len(lastResponse.hist) : lastResponse.hist[j].error # "") =>
              lastResponse.historyError # ""

\* C11, amended: a response of GET /api/weather/extended after forecast
\* retrieval is either a 502 whose body has the error member alone, exactly
\* when the forecast call failed, or a 200 with the members of an
\* ExtendedOutlook; in the 200 a failed history call is told by historyError,
\* and forecastError is non-empty exactly when forecast is empty.
C11_FieldsOfOutlook ==
    AfterForecastRetrieval =>
        IF lastResponse.fc.error # ""
        THEN /\ lastResponse.status = 502
             /\ lastResponse.fields = {"error"}
             /\ lastResponse.error = lastResponse.fc.error
        ELSE /\ lastResponse.status = 200
             /\ lastResponse.fields = OutlookFields
             /\ (\E j \in 1..2 : lastResponse.hist[j].error # "") =>
                   lastResponse.historyError # ""
             /\ lastResponse.forecastError # "" <=> lastResponse.forecast = <<>>

\* a 200 whose forecast is empty and told by forecastError, beside a failed
\* history call told by historyError
C11_Witness ==
    /\ AfterForecastRetrieval
    /\ lastResponse.status = 200
    /\ lastResponse.forecast = <<>>
    /\ lastResponse.forecastError = "Forecast unavailable"
    /\ lastResponse.hist[2].error # ""
    /\ lastResponse.historyError # ""

\* an arrival at one of the two weather routes was just handled
ArrivedAtWeatherRoute ==
    lastGate.out # "none" /\ lastGate.path \in {WeatherPath, ExtendedPath}

CurrentGotErrorPayload ==
    /\ lastUpstream.call = "current"
    /\ lastUpstream.outcome.reach /\ lastUpstream.outcome.ok
    /\ lastUpstream.outcome.json /\ lastUpstream.outcome.err # "none"

\* C13 as stated: whenever the current-conditions call returns HTTP 200 with a
\* provider-side error object, GET /api/weather answers 502 and the error
\* field of the body is the provider's message, unchanged
C13_AsStated ==
    CurrentGotErrorPayload
        => /\ lastResponse.status = 502
           /\ lastResponse.error = ErrorMessageOf(lastUpstream.outcome)

\* C13: whenever the current-conditions call returns HTTP 200 with a
\* provider-side error object, GET /api/weather answers 502 with a body of the
\* single member error; error is the provider's message, unchanged, when the
\* error object carries one, and 'Weather service error' when it carries none
C13_ProviderErrorPayload ==
    CurrentGotErrorPayload
        => /\ lastResponse.path = WeatherPath
           /\ lastResponse.status = 502
           /\ lastResponse.fields = {"error"}
           /\ lastResponse.error =
                 (IF lastUpstream.outcome.err = "msg" THEN providerMessage
                  ELSE "Weather service error")

C13_Witness ==
    /\ CurrentGotErrorPayload
    /\ lastUpstream.outcome.err = "msg"
    /\ lastResponse.status = 502
    /\ lastResponse.error = providerMessage

-----------------------------------------------------------------------------
(* Properties of the rate limiter's scope (SpecGate) *)

\* C14: the limiter counts and can reject only requests whose path begins
\* with /api/weather: a step that handles a request leaves the store as it
\* was unless the path begins with /api/weather, and answers 429 only then;
\* a request to /api/health is answered 200 by its handler and creates or
\* changes no entry of the store, however many weather requests its sender
\* has made
C14_LimiterScope ==
    [][lastGate'.out # "none"
          => /\ lastGate'.gated <=> StartsWith(lastGate'.path, WeatherPath)
             /\ lastResponse'.status = 429 => lastGate'.gated
             /\ ~lastGate'.gated
                   => /\ rateLimitStore' = rateLimitStore
                      /\ attempts' = attempts
                      /\ passed' = passed
             /\ lastGate'.path = HealthPath
                   => /\ ~lastGate'.gated
                      /\ lastGate'.out = "next"
                      /\ lastResponse' = HealthResponse(HealthPath)]_vars

\* a health request is answered 200 for a sender whose window is open, full,
\* and has already rejected a weather request
C14_Witness ==
    /\ lastGate.path = HealthPath
    /\ lastGate.out = "next"
    /\ lastResponse.status = 200
    /\ lastGate.key \in DOMAIN rateLimitStore
    /\ rateLimitStore[lastGate.key].count = rateLimitMax
    /\ lastGate.priorCount = rateLimitMax
    /\ lastGate.time <= rateLimitStore[lastGate.key].resetTime
    /\ attempts[lastGate.key] > rateLimitMax

-----------------------------------------------------------------------------
(* Properties of the route handlers, continued (SpecServer) *)

\* C15: every response of GET /api/weather has status 200, 400, 429, 500 or
\* 502.  An arriving request is answered 429 when the limiter rejects it,
\* whatever its query and the key; otherwise 400 when it has no query,
\* whatever the key; otherwise 500 when the key is unset, and then no upstream
\* call is issued; otherwise it is not answered yet and exactly one upstream
\* call is issued, whose settling answers it 200 or 502
C15_WeatherStatuses ==
    /\ lastResponse.path = WeatherPath
          => lastResponse.status \in {200, 400, 429, 500, 502}
    /\ accessKey = "" => active = <<>>
    /\ (lastGate.out # "none" /\ lastGate.path = WeatherPath)
          => IF lastGate.out = "429"
             THEN lastResponse.status = 429 /\ Len(active) = lastGate.activeBefore
             ELSE IF lastGate.params.query = "" /\ lastGate.params.location = ""
             THEN lastResponse.status = 400 /\ Len(active) = lastGate.activeBefore
             ELSE IF accessKey = ""
             THEN lastResponse.status = 500 /\ Len(active) = lastGate.activeBefore
             ELSE /\ lastResponse = NoResponse
                  /\ Len(active) = lastGate.activeBefore + 1
                  /\ active[Len(active)].pc = "current"
                  /\ active[Len(active)].calls = 1
    /\ lastUpstream.call = "current"
          => /\ lastResponse.path = WeatherPath
             /\ lastResponse.calls = 1
             /\ lastResponse.status =
                   (IF /\ lastUpstream.outcome.reach /\ lastUpstream.outcome.json
                       /\ lastUpstream.outcome.ok /\ lastUpstream.outcome.err = "none"
                    THEN 200 ELSE 502)

\* the limiter's 429 goes to a request that has no query, with the key unset
C15_Witness ==
    /\ lastGate.path = WeatherPath
    /\ lastGate.out = "429"
    /\ lastGate.params = [query |-> "", location |-> ""]
    /\ accessKey = ""
    /\ lastResponse.status = 429
    /\ lastResponse.retryAfter >= 1

OutlookAnswered ==
    lastResponse.path = ExtendedPath /\ lastResponse.status = 200

\* the error of the first failed history call in request order ("": none failed)
FirstFailedHistory ==
    IF lastResponse.hist[1].error # "" THEN lastResponse.hist[1].error
    ELSE lastResponse.hist[2].error

\* C17 as stated: in a 200 response historyError is non-empty exactly when
\* zero history days were obtained, and is then the error of the first failed
\* history call in request order
C17_AsStated ==
    OutlookAnswered
        => /\ lastResponse.historyError # "" <=> lastResponse.history = <<>>
           /\ lastResponse.historyError # ""
                 => lastResponse.historyError = FirstFailedHistory

\* C17: in a 200 response historyError is non-empty exactly when at least one
\* of the two history calls failed, and it is then the error message of the
\* first failed history call in request order, whether or not the other call's
\* day is included in history; it is empty when both calls succeeded, even if
\* they brought no day
C17_HistoryErrorOfFirstFailure ==
    OutlookAnswered
        => /\ lastResponse.historyError = FirstFailedHistory
           /\ lastResponse.historyError # ""
                 <=> \E j \in 1..2 : lastResponse.hist[j].error # ""
           /\ lastResponse.history = <<>>
                 => \A j \in 1..2 : \/ lastResponse.hist[j].error # ""
                                    \/ lastResponse.hist[j].days = <<>>

\* yesterday's call failed, the other day is in history, historyError is set
C17_Witness ==
    /\ OutlookAnswered
    /\ lastResponse.hist[1].error = "Unable to reach weather service"
    /\ lastResponse.hist[2].hasData
    /\ Len(lastResponse.history) = 1
    /\ lastResponse.history[1].date = HistoryDates[2]
    /\ lastResponse.historyError = "Unable to reach weather service"

\* entries of the upstream forecastday array left once today's is dropped
ForecastEntriesAfterToday ==
    IF Len(lastResponse.fc.days) = 0 THEN 0 ELSE Len(lastResponse.fc.days) - 1

\* C18 as stated: whenever the upstream forecast response, after today's entry
\* is dropped, has fewer than 2 forecastday entries (0 or 1), the 200 response
\* has forecast empty and forecastError equal to 'Forecast unavailable'
C18_AsStated ==
    (OutlookAnswered /\ ForecastEntriesAfterToday < 2)
        => /\ lastResponse.forecast = <<>>
           /\ lastResponse.forecastError = "Forecast unavailable"

\* C18: whenever the upstream forecast response has no forecastday entry left
\* after today's is dropped, the 200 response has forecast empty and
\* forecastError equal to 'Forecast unavailable'; whenever one or more are
\* left, forecast holds exactly those entries, in order, and forecastError is
\* empty
C18_ShortForecast ==
    OutlookAnswered
        => IF ForecastEntriesAfterToday = 0
           THEN /\ lastResponse.forecast = <<>>
                /\ lastResponse.forecastError = "Forecast unavailable"
           ELSE /\ Len(lastResponse.forecast) = ForecastEntriesAfterToday
                /\ \A i \in 1..Len(lastResponse.forecast) :
                      lastResponse.forecast[i].date = lastResponse.fc.days[i + 1].date
                /\ lastResponse.forecastError = ""

\* the upstream forecast held today's entry only
C18_Witness ==
    /\ OutlookAnswered
    /\ Len(lastResponse.fc.days) = 1
    /\ lastResponse.forecast = <<>>
    /\ lastResponse.forecastError = "Forecast unavailable"

\* the day a history call brought, mapped, as a sequence of at most one entry
HistoryDayOf(j) ==
    IF lastResponse.hist[j].hasData /\ lastResponse.hist[j].days # <<>>
    THEN <<[date |-> HistoryDates[j], shape |-> "history"]>>
    ELSE <<>>

\* C19: the history sequence of a 200 response lists the successfully fetched
\* days in request order, yesterday before two-days-ago, whichever of the two
\* history calls settled first; a failed call removes its day and leaves the
\* other in place
C19_HistoryInRequestOrder ==
    OutlookAnswered
        => /\ lastResponse.first \in {1, 2}
           /\ lastResponse.history = HistoryDayOf(1) \o HistoryDayOf(2)

\* the call for two-days-ago settled first and both days are in history
C19_Witness ==
    /\ OutlookAnswered
    /\ lastResponse.first = 2
    /\ lastUpstream.call = "history1"
    /\ Len(lastResponse.history) = 2
    /\ lastResponse.history[1].date = "D-1"
    /\ lastResponse.history[2].date = "D-2"

\* a call made through requestWeather has just settled
RequestWeatherReturned ==
    lastUpstream.call \in {"forecast", "history1", "history2"}

\* the upstream answered, and with an HTTP error status or an error payload
UpstreamAnsweredWithError ==
    /\ lastUpstream.outcome.reach
    /\ ~lastUpstream.outcome.ok \/ lastUpstream.outcome.err # "none"

\* C20: requestWeather always returns exactly one of {data} or {error}; an
\* upstream HTTP error or error payload yields the provider's message when one
\* is present and otherwise 'Weather service error'; 'Unable to reach weather
\* service' is returned only when the upstream could not be reached, never
\* for an upstream that answered with an HTTP error status
C20_FailureTagging ==
    RequestWeatherReturned
        => /\ lastUpstream.result.settled
           /\ lastUpstream.result.hasData <=> lastUpstream.result.error = ""
           /\ UpstreamAnsweredWithError
                 => lastUpstream.result.error =
                       (IF lastUpstream.outcome.err = "msg" THEN providerMessage
                        ELSE "Weather service error")
           /\ lastUpstream.result.error = "Unable to reach weather service"
                 => ~lastUpstream.outcome.reach

\* the upstream answered with an HTTP error status and a body that is not JSON
C20_UnparsableErrorBody ==
    /\ RequestWeatherReturned
    /\ lastUpstream.outcome.reach
    /\ ~lastUpstream.outcome.ok
    /\ ~lastUpstream.outcome.json
    /\ lastUpstream.result.error = "Unable to reach weather service"

-----------------------------------------------------------------------------
(* Properties of the bucket key (SpecKey) *)

\* key is the trimmed first comma-separated entry of value: value is some
\* blanks, key, some blanks, and then its end or a comma; key holds no comma
\* and neither begins nor ends with a blank
IsTrimmedFirstEntry(key, value) ==
    \E i \in 1..Len(value) + 1, j \in 0..Len(value) :
       /\ j >= i - 1
       /\ key = SubSeq(value, i, j)
       /\ \A n \in 1..Len(key) : key[n] # ","
       /\ key # <<>> => key[1] # " " /\ key[Len(key)] # " "
       /\ \A n \in 1..(i - 1) : value[n] = " "
       /\ \E e \in j..Len(value) :
             /\ \A n \in (j + 1)..e : value[n] = " "
             /\ e = Len(value) \/ value[e + 1] = ","

\* the bucket key the claim gives a sender
IsKeyOf(key, sender) ==
    IF sender.xff.present /\ sender.xff.value # <<>>
    THEN IsTrimmedFirstEntry(key, sender.xff.value)
    ELSE IF sender.ip # <<>> THEN key = sender.ip
    ELSE IF sender.remote # <<>> THEN key = sender.remote
    ELSE key = <<"unknown">>

\* C25: the bucket key of a request is the trimmed first comma-separated
\* entry of the X-Forwarded-For header when that header is a non-empty
\* string, otherwise the connection's remote address, otherwise 'unknown';
\* a request is counted in the bucket of its key and in no other, so that
\* requests of one connection with different first entries are counted in
\* different buckets and all requests with no resolvable address in the one
\* bucket 'unknown'
C25_BucketKey ==
    [][lastGate'.gated
          => /\ IsKeyOf(lastGate'.key, lastGate'.sender)
             /\ lastGate'.sender.xff.value = <<" ", "1", ",", " ", "2">>
                   => lastGate'.key = <<"1">>
             /\ lastGate'.hadEntry
                   <=> \E s \in gatedSenders : IsKeyOf(lastGate'.key, s)
             /\ DOMAIN rateLimitStore' = DOMAIN rateLimitStore \cup {lastGate'.key}
             /\ rateLimitStore'[lastGate'.key].count = lastGate'.priorCount + 1
             /\ \A k \in DOMAIN rateLimitStore \ {lastGate'.key} :
                   rateLimitStore'[k] = rateLimitStore[k]]_vars

\* one connection sent three requests with the first entries 1, 2 and none,
\* and each is counted in a bucket of its own
C25_Witness ==
    /\ DOMAIN rateLimitStore = {<<"1">>, <<"2">>, <<"9">>}
    /\ \A k \in DOMAIN rateLimitStore : rateLimitStore[k].count = 1
    /\ \A s \in gatedSenders : s.ip = <<"9">>

\* two senders with no resolvable address share the bucket 'unknown'
C25_UnknownShared ==
    /\ Cardinality(gatedSenders) = 2
    /\ \A s \in gatedSenders : s.ip = <<>> /\ s.remote = <<>>
    /\ DOMAIN rateLimitStore = {<<"unknown">>}
    /\ rateLimitStore[<<"unknown">>].count = 2

-----------------------------------------------------------------------------
(* Properties of the sweep (SpecSweep) *)

\* C26: the sweep runs only on a gated request that finds the store holding
\* rateLimitPruneSize (1000) or more keys; it then deletes exactly the
\* entries whose reset time has passed (the requester's own, if expired, is
\* replaced by its new window) and never an entry whose window is still
\* open; every other request deletes nothing; and no request changes the
\* entry of a key other than the requester's, so no client regains quota
\* early because of a sweep
C26_SweepOnlyExpired ==
    [][lastGate'.out # "none"
          => LET size == Cardinality(DOMAIN rateLimitStore)
                 t    == lastGate'.time
                 key  == lastGate'.key
                 gone == DOMAIN rateLimitStore \ DOMAIN rateLimitStore'
             IN
             /\ rateLimitPruneSize = 1000
             /\ (~lastGate'.gated \/ size < rateLimitPruneSize) => gone = {}
             /\ (lastGate'.gated /\ size >= rateLimitPruneSize)
                   => gone = {k \in DOMAIN rateLimitStore \ {key} :
                                 t > rateLimitStore[k].resetTime}
             /\ \A k \in gone : t > rateLimitStore[k].resetTime
             /\ \A k \in (DOMAIN rateLimitStore \cap DOMAIN rateLimitStore') \ {key} :
                   rateLimitStore'[k] = rateLimitStore[k]
             /\ (key \in DOMAIN rateLimitStore /\ t <= rateLimitStore[key].resetTime)
                   => /\ key \in DOMAIN rateLimitStore'
                      /\ rateLimitStore'[key].resetTime = rateLimitStore[key].resetTime
                      /\ rateLimitStore'[key].count >= rateLimitStore[key].count]_vars

\* a gated request at 59000 found 1000 keys: the entries that expired at 1
\* are gone, those that expire at 59000 and at 60000 are kept
C26_Witness ==
    /\ lastGate.gated
    /\ lastGate.time = 59000
    /\ Cardinality(DOMAIN rateLimitStore) < rateLimitPruneSize
    /\ <<"10.0", "0", "0", "0">> \notin DOMAIN rateLimitStore
    /\ <<"10.0", "0", "0", "4">> \in DOMAIN rateLimitStore
    /\ <<"10.0", "0", "0", "7">> \in DOMAIN rateLimitStore
    /\ \A k \in DOMAIN rateLimitStore : rateLimitStore[k].resetTime >= 59000

-----------------------------------------------------------------------------
(* Properties of the rate limiter, continued (SpecGate) *)

\* C27: a request answered 429 leaves its key's count and reset time
\* unchanged, so rejected requests never extend the window, and the handler
\* of the route is not run for it: the response is the limiter's own and no
\* handler invocation and no upstream call comes of it
C27_RejectedFrame ==
    [][lastGate'.out = "429"
          => LET key == lastGate'.key IN
             /\ key \in DOMAIN rateLimitStore
             /\ key \in DOMAIN rateLimitStore'
             /\ rateLimitStore'[key] = rateLimitStore[key]
             /\ rateLimitStore[key].count = rateLimitMax
             /\ lastGate'.time <= rateLimitStore'[key].resetTime
             /\ passed' = passed
             /\ lastResponse'.status = 429
             /\ lastResponse'.fields = {"error"}
             /\ lastResponse'.error = rateLimitMessage
             /\ active' = active
             /\ lastUpstream' = NoUpstream]_vars

\* a request rejected 59 seconds into its key's window, after an earlier
\* rejection: the window still ends when it was to end
C27_Witness ==
    /\ lastGate.out = "429"
    /\ lastGate.time = 59000
    /\ lastGate.priorAttempts > rateLimitMax
    /\ lastGate.priorReset = rateLimitWindowMs
    /\ rateLimitStore[lastGate.key] =
          [count |-> rateLimitMax, resetTime |-> rateLimitWindowMs]
    /\ lastResponse.status = 429
    /\ lastResponse.retryAfter = 1

\* C28: while the store holds fewer than 1000 keys, the requests of one key
\* do not touch another key: the limiter decides a request, and leaves its
\* key's count and reset time, as it would with the entries of all other
\* keys taken out of the store, and every other key's entry stays as it was
C28_KeysIndependent ==
    [][lastGate'.gated
          => LET key   == lastGate'.key
                 req   == [path |-> lastGate'.path, sender |-> lastGate'.sender,
                           params |-> lastGate'.params]
                 own   == [k \in DOMAIN rateLimitStore \cap {key} |->
                              rateLimitStore[k]]
                 alone == rateLimit(own, req, now)
             IN
             /\ Cardinality(DOMAIN rateLimitStore) < rateLimitPruneSize
             /\ key = getClientIp(req)
             /\ lastGate'.out = alone.out
             /\ lastGate'.retryAfter = alone.retryAfter
             /\ DOMAIN alone.store = {key}
             /\ rateLimitStore'[key] = alone.store[key]
             /\ DOMAIN rateLimitStore' = DOMAIN rateLimitStore \cup {key}
             /\ \A other \in DOMAIN rateLimitStore \ {key} :
                   rateLimitStore'[other] = rateLimitStore[other]]_vars

\* one key opens a new window and is let through while another key, in an
\* earlier window that has run out, still holds its exhausted entry
C28_Witness ==
    /\ lastGate.gated /\ lastGate.out = "next" /\ lastGate.opened
    /\ \E other \in DOMAIN rateLimitStore \ {lastGate.key} :
          /\ rateLimitStore[other].count = rateLimitMax
          /\ attempts[other] > rateLimitMax
          /\ rateLimitStore[other].resetTime < now
          /\ rateLimitStore[lastGate.key].resetTime = now + rateLimitWindowMs

-----------------------------------------------------------------------------
(* Properties of the client (SpecClient) *)

\* the age of the entry the last call found in its cache
CachedAge == clock - parseCachedAt(lastCall.cachedBefore[1])

\* the last call found the cooldown of its key set within throttleMs
RecentCooldown == lastCall.cooldownAge >= 0 /\ lastCall.cooldownAge < throttleMs

C4_AsStated ==
    (/\ lastCall.fn \in {"fetchWeather", "fetchExtended"}
     /\ ~lastCall.force
     /\ lastCall.cachedBefore # <<>>) =>
        /\ CachedAge = cacheTtlMs - 1 =>
              lastCall.displayed = lastCall.cachedBefore /\ ~lastCall.issued
        /\ CachedAge = cacheTtlMs + 1 => lastCall.issued

\* C4, amended: a non-forced fetch that finds an entry cached ttl - 1 ms ago
\* displays it and issues no request; one that finds an entry cached
\* ttl + 1 ms ago issues a request exactly when no request of its key is in
\* flight and the key's cooldown is not within the throttle interval.
C4_TtlBoundary ==
    (/\ lastCall.fn \in {"fetchWeather", "fetchExtended"}
     /\ ~lastCall.force
     /\ lastCall.cachedBefore # <<>>) =>
        /\ CachedAge = cacheTtlMs - 1 =>
              lastCall.displayed = lastCall.cachedBefore /\ ~lastCall.issued
        /\ CachedAge = cacheTtlMs + 1 =>
              (lastCall.issued <=> ~lastCall.wasInFlight /\ ~RecentCooldown)

\* a non-forced fetch finds an entry cached ttl + 1 ms ago and issues a request
C4_Witness ==
    /\ lastCall.fn \in {"fetchWeather", "fetchExtended"}
    /\ ~lastCall.force
    /\ lastCall.cachedBefore # <<>>
    /\ CachedAge = cacheTtlMs + 1
    /\ lastCall.issued

\* the requests in flight under one throttle key
InFlightOf(key) == {r \in NetRequests : r.key = key /\ pending[r] > 0}

\* C5: at most one network request is in flight per throttle key, a key is
\* flagged in flight exactly while it has one, and a call that arrives while a
\* request of its key is in flight issues none, forced or not.
C5_OneInFlightPerKey ==
    /\ \A key \in ThrottleKeys :
          /\ Cardinality(InFlightOf(key)) <= 1
          /\ \A r \in InFlightOf(key) : pending[r] = 1
          /\ isInFlight(requestInFlight, key) <=> InFlightOf(key) # {}
    /\ (lastCall.fn # "none" /\ lastCall.wasInFlight) => ~lastCall.issued

\* a forced call for a location whose key is in flight for another spelling
C5_Witness ==
    /\ lastCall.fn = "fetchWeather"
    /\ lastCall.force
    /\ lastCall.wasInFlight
    /\ ~lastCall.issued
    /\ \E r \in InFlightOf(ThrottleKey("weather", lastCall.cleaned)) :
          r.cleaned # lastCall.cleaned

\* C6: when a request of fetchWeather (or fetchExtended) settles for a
\* location other than the active one, the weather, status and error (or the
\* extended data, status and error) on display stay as they are.
C6_LateResultKeptOut ==
    [][\A r \in NetRequests :
          (/\ pending'[r] < pending[r]
           /\ ToLowerCase(r.cleaned) # ToLowerCase(activeLocation)) =>
             /\ r.kind = "weather" =>
                   weather' = weather /\ status' = status /\ error' = error
             /\ r.kind = "extended" =>
                   /\ extendedData' = extendedData
                   /\ extendedStatus' = extendedStatus
                   /\ extendedError' = extendedError]_vars

\* C7 as stated: a non-forced fetch 500 ms after the non-forced fetch that
\* issued the key's request issues none, and a forced fetch at that moment
\* issues one.
C7_AsStated ==
    (lastCall.fn \in {"fetchWeather", "fetchExtended"} /\ lastCall.cooldownAge = 500) =>
        IF lastCall.force THEN lastCall.issued ELSE ~lastCall.issued

\* C7, amended: a non-forced fetch 500 ms after the non-forced fetch that
\* issued the key's request issues none, and a forced fetch at that moment
\* issues one exactly when no request of the key is in flight.
C7_ThrottleThenForce ==
    (lastCall.fn \in {"fetchWeather", "fetchExtended"} /\ lastCall.cooldownAge = 500) =>
        IF lastCall.force THEN (lastCall.issued <=> ~lastCall.wasInFlight)
        ELSE ~lastCall.issued

\* a forced fetch 500 ms after the key's non-forced request issues a second
C7_Witness ==
    /\ lastCall.fn = "fetchWeather"
    /\ lastCall.force
    /\ lastCall.cooldownAge = 500
    /\ lastCall.issued
    /\ started = 2

\* C8: a forced fetchWeather or fetchExtended call issues a network request
\* exactly when no request of its key is in flight, be the cached entry fresh
\* and the key's cooldown within the throttle interval.
C8_ForcedBypasses ==
    (lastCall.fn \in {"fetchWeather", "fetchExtended"} /\ lastCall.force) =>
        (lastCall.issued <=> ~lastCall.wasInFlight)

\* a forced call that found a fresh entry and a recent cooldown issues a request
C8_Witness ==
    /\ lastCall.fn \in {"fetchWeather", "fetchExtended"}
    /\ lastCall.force
    /\ lastCall.cachedBefore # <<>>
    /\ CachedAge < cacheTtlMs
    /\ RecentCooldown
    /\ lastCall.issued

\* the last call was a non-forced fetchWeather or fetchExtended
NonForcedFetch ==
    lastCall.fn \in {"fetchWeather", "fetchExtended"} /\ ~lastCall.force

\* the last call found a request of its key, forced or not, started within
\* throttleMs
RecentStart == lastCall.startedAge >= 0 /\ lastCall.startedAge < throttleMs

\* the last call found a fresh entry in its cache
FoundFresh == lastCall.cachedBefore # <<>> /\ CachedAge < cacheTtlMs

\* C21 as stated: a non-forced fetchWeather or fetchExtended call issues no
\* network request whenever the previous call for its key that issued one,
\* forced or non-forced, was started less than throttleMs earlier
C21_AsStated ==
    (NonForcedFetch /\ RecentStart) => ~lastCall.issued

\* C21: a non-forced fetchWeather or fetchExtended call issues no network
\* request whenever the previous non-forced call for its key that issued one
\* was started less than throttleMs earlier.  A forced call that issues a
\* request leaves the key's throttle timestamp as it was, so a non-forced call
\* made within throttleMs after a forced call, once that call has completed,
\* with no fresh cache entry and no recent non-forced request, issues a
\* network request
C21_ThrottleWindow ==
    /\ (NonForcedFetch /\ RecentCooldown) => ~lastCall.issued /\ RecentStart
    /\ (NonForcedFetch /\ RecentStart /\ ~RecentCooldown)
          => (lastCall.issued <=> ~lastCall.wasInFlight /\ ~FoundFresh)
    /\ (lastCall.fn \in {"fetchWeather", "fetchExtended"} /\ lastCall.force)
          => LET key == ThrottleKey(lastCall.kind, lastCall.cleaned) IN
             IF lastCall.cooldownAge = -1 THEN key \notin DOMAIN requestCooldowns
             ELSE /\ key \in DOMAIN requestCooldowns
                  /\ clock - requestCooldowns[key] = lastCall.cooldownAge

\* a non-forced call 500 ms after its key's last non-forced request, with no
\* request in flight and no entry in the cache, is suppressed
C21_Witness ==
    /\ NonForcedFetch
    /\ lastCall.cooldownAge = 500
    /\ lastCall.startedAge = 500
    /\ ~lastCall.wasInFlight
    /\ lastCall.cachedBefore = <<>>
    /\ ~lastCall.issued

\* a non-forced call 500 ms after a forced call for its key, which has
\* completed and left no cache entry, issues a request
C21_AfterForced ==
    /\ NonForcedFetch
    /\ lastCall.startedAge = 500
    /\ lastCall.cooldownAge = -1
    /\ ~lastCall.wasInFlight
    /\ lastCall.cachedBefore = <<>>
    /\ lastCall.issued

\* the requests to /api/weather in flight for a location, compared without
\* case, that the functions of kinds started
WeatherRequestsFor(kinds, location) ==
    {r \in NetRequests : /\ r.kind \in kinds
                         /\ ToLowerCase(r.cleaned) = ToLowerCase(location)
                         /\ pending[r] > 0}

\* C22 as stated: at any moment at most one request to /api/weather is in
\* flight for a given location, counting the requests started by fetchWeather
\* and by fetchQuickTemperature together
C22_AsStated ==
    \A l \in Locations :
       /\ Cardinality(WeatherRequestsFor({"weather", "quick"}, l)) <= 1
       /\ \A r \in WeatherRequestsFor({"weather", "quick"}, l) : pending[r] = 1

\* C22: at any moment at most one request to /api/weather started by
\* fetchWeather and at most one started by fetchQuickTemperature is in flight
\* for a given location, compared without case; the two functions do not
\* deduplicate against each other, so up to two are in flight together
C22_OnePerFunction ==
    \A l \in Locations :
       /\ \A k \in {"weather", "quick"} :
             /\ Cardinality(WeatherRequestsFor({k}, l)) <= 1
             /\ \A r \in WeatherRequestsFor({k}, l) : pending[r] = 1
       /\ Cardinality(WeatherRequestsFor({"weather", "quick"}, l)) <= 2

\* one request of fetchWeather and one of fetchQuickTemperature are in flight
\* for the same location
C22_Witness ==
    \E l \in Locations :
       /\ WeatherRequestsFor({"weather"}, l) # {}
       /\ WeatherRequestsFor({"quick"}, l) # {}
       /\ isInFlight(requestInFlight, ThrottleKey("weather", l))
       /\ isInFlight(requestInFlight, ThrottleKey("quick", l))

\* C23: a non-forced fetchWeather or fetchExtended call that finds a fresh
\* cache entry displays it with status 'ready', issues no network request,
\* and leaves the throttle timestamps and the in-flight flags of every key
\* unchanged
C23_FreshHitFrame ==
    [][(/\ lastCall'.fn \in {"fetchWeather", "fetchExtended"}
        /\ ~lastCall'.force
        /\ lastCall'.cachedBefore # <<>>
        /\ clock - lastCall'.cachedBefore[1].cachedAt < cacheTtlMs)
          => /\ ~lastCall'.issued
             /\ pending' = pending
             /\ requestCooldowns' = requestCooldowns
             /\ requestInFlight' = requestInFlight
             /\ IF lastCall'.kind = "weather"
                THEN /\ weather' = lastCall'.cachedBefore
                     /\ status' = "ready"
                     /\ error' = ""
                     /\ weatherCache' = weatherCache
                ELSE /\ extendedData' = lastCall'.cachedBefore
                     /\ extendedStatus' = "ready"
                     /\ extendedError' = ""
                     /\ extendedCache' = extendedCache]_vars

\* a non-forced call displays a fresh entry while a request of its key is in
\* flight, and the key stays flagged
C23_Witness ==
    /\ NonForcedFetch
    /\ FoundFresh
    /\ lastCall.displayed = lastCall.cachedBefore
    /\ ~lastCall.issued
    /\ lastCall.wasInFlight
    /\ isInFlight(requestInFlight, ThrottleKey(lastCall.kind, lastCall.cleaned))

\* a step in which fetchWeather starts its network request
WeatherStarted ==
    \E r \in NetRequests : r.kind = "weather" /\ pending'[r] > pending[r]

\* a step in which a network request of fetchWeather settles
WeatherSettled ==
    \E r \in NetRequests : r.kind = "weather" /\ pending'[r] < pending[r]

\* a step in which a call puts an entry of the weather cache on display
\* without starting a request
CacheDisplayed ==
    /\ pending' = pending
    /\ lastCall'.kind = "weather"
    /\ lastCall'.cachedBefore # <<>>
    /\ weather' = lastCall'.cachedBefore

\* C24 as stated: the weather status is idle initially and takes only the
\* values idle, loading, ready and error; it never returns to idle; it becomes
\* loading only at the moment a network request is started; and it becomes
\* ready or error only from loading, on the success or failure of a fetch
C24_AsStated ==
    /\ status = "idle"
    /\ [][/\ status' \in {"idle", "loading", "ready", "error"}
          /\ status' # status
                => /\ status' # "idle"
                   /\ status' = "loading" => WeatherStarted
                   /\ status' \in {"ready", "error"}
                         => status = "loading" /\ WeatherSettled]_vars

\* C24: the weather status is idle initially and takes only the values idle,
\* loading, ready and error; it never returns to idle; it becomes loading
\* exactly when fetchWeather starts a network request; it becomes error only
\* when a request of fetchWeather settles with a failure, from loading or from
\* ready; and it becomes ready either when a request of fetchWeather settles
\* with success or when a call displays a cache entry without a request,
\* which happens from idle and from error as well as from loading
C24_StatusMachine ==
    /\ status = "idle"
    /\ [][/\ status' \in {"idle", "loading", "ready", "error"}
          /\ WeatherStarted => status' = "loading"
          /\ WeatherSettled => status' \in {"ready", "error"} /\ status # "idle"
          /\ status' # status
                => /\ status' # "idle"
                   /\ status' = "loading" => WeatherStarted
                   /\ status' = "error"
                         => WeatherSettled /\ status \in {"loading", "ready"}
                   /\ status' = "ready"
                         => WeatherSettled \/ CacheDisplayed]_vars

\* the status is ready by a cache hit though fetchWeather never started a
\* request: it came from idle
C24_Witness ==
    /\ status = "ready"
    /\ lastCall.kind = "weather"
    /\ lastCall.displayed # <<>>
    /\ weather = lastCall.displayed
    /\ \A k \in DOMAIN lastStarted : k[1] = "quick"


\* a step in which a network request settles
RequestSettled == pending' # pending /\ lastSettled'.kind # "none"

\* the caches and the saved temperatures stay as they were, and after
\* fetchQuickTemperature so does what is on display
FailureFrame ==
    /\ weatherCache' = weatherCache
    /\ extendedCache' = extendedCache
    /\ savedTemps' = savedTemps
    /\ lastSettled'.kind = "quick"
          => weather' = weather /\ status' = status /\ error' = error

C29_EmptyErrorCached ==
    /\ lastSettled.kind = "weather"
    /\ lastSettled.outcome = "emptyError"
    /\ Has(weatherCache, lastSettled.cleaned)
    /\ weatherCache[lastSettled.cleaned].cachedAt = clock
    /\ status = "ready"


\* C30: when every started network request settles, every in-flight flag
\* that is set is cleared later, after a success and after a failure alike
\* (at every moment there is a later one at which the flag is clear),
\* neither the weather status nor the extended status stays 'loading' for
\* ever, and a key's flag is set only while a request started for that key
\* has not settled
C30_Completion ==
    /\ \A key \in ThrottleKeys : []<>(key \notin requestInFlight)
    /\ []<>(status # "loading")
    /\ []<>(extendedStatus # "loading")
    /\ [](\A key \in requestInFlight : InFlightOf(key) # {})

\* a request of fetchWeather has failed: its flag is cleared, no request is
\* left in flight and the status has left 'loading' for 'error'
C30_Witness ==
    /\ lastSettled.kind = "weather"
    /\ lastSettled.outcome = "network"
    /\ ThrottleKey("weather", lastSettled.cleaned) \notin requestInFlight
    /\ requestInFlight = {}
    /\ \A r \in NetRequests : pending[r] = 0
    /\ status = "error"
    /\ started = MaxRequests

=============================================================================
